---------------------------- MODULE Spec2Model ----------------------------
(***************************************************************************)
(* A model of app/main.py: a FastAPI application with five routes whose    *)
(* handlers are pure functions of the request.  The state is what the      *)
(* serving runtime holds: the requests in flight on its connections and    *)
(* the responses produced for them, plus a history variable recording the  *)
(* successful creates (the application itself keeps no such record and no  *)
(* handler reads it).                                                      *)
(*                                                                         *)
(* A URL path is a sequence of segments and a segment is a sequence of     *)
(* characters, so that binding the path parameter to `int` and formatting  *)
(* it back with an f-string are real conversions.  Text produced by the    *)
(* handlers and query values, which the code never takes apart, are        *)
(* strings.                                                                *)
(***************************************************************************)
EXTENDS Integers, Sequences, FiniteSets, TLC

VARIABLES slots, created

vars == <<slots, created>>

(***************************************************************************)
(* Bounds of the model.                                                    *)
(***************************************************************************)
\* connections the runtime serves concurrently
MaxSlots == 2
\* longest path segment a client sends
MaxSegLen == 3

Slots == 1..MaxSlots

(***************************************************************************)
(* Characters and text.                                                    *)
(***************************************************************************)
DigitChars == <<"0", "1", "2", "3", "4", "5", "6", "7", "8", "9">>

\* the characters clients build path segments from
Alphabet == {"0", "1", "2", "3", "5", "9", "-", "a"}

RECURSIVE SeqsOfLen(_)
SeqsOfLen(n) ==
    IF n = 0 THEN {<<>>}
    ELSE {Append(s, c) : s \in SeqsOfLen(n - 1), c \in Alphabet}

\* every non-empty segment of at most MaxSegLen characters
Segments == UNION {SeqsOfLen(n) : n \in 1..MaxSegLen}

IsDigit(c) == \E k \in 1..10 : DigitChars[k] = c

DigitValue(c) == (CHOOSE k \in 1..10 : DigitChars[k] = c) - 1

RECURSIVE NatValue(_)
NatValue(ds) ==
    IF ds = <<>> THEN 0
    ELSE NatValue(SubSeq(ds, 1, Len(ds) - 1)) * 10 + DigitValue(ds[Len(ds)])

\* Faulty variant of ParseInt: reads the longest numeric prefix, as atoi does,
\* and never fails.
ParseIntLenient(seg) ==
    LET neg == Len(seg) > 0 /\ seg[1] = "-"
        ds  == IF neg THEN Tail(seg) ELSE seg
        n   == IF \E k \in 1..Len(ds) : ~IsDigit(ds[k])
               THEN (CHOOSE k \in 1..Len(ds) :
                        ~IsDigit(ds[k]) /\ \A j \in 1..(k - 1) : IsDigit(ds[j])) - 1
               ELSE Len(ds)
        v   == NatValue(SubSeq(ds, 1, n))
    IN  [ok |-> TRUE, value |-> IF neg THEN -v ELSE v]

\* Binding of a path segment to a parameter annotated `int`: an optional
\* minus sign followed by one or more decimal digits.
ParseInt(seg) ==
    LET neg == Len(seg) > 0 /\ seg[1] = "-"
        ds  == IF neg THEN Tail(seg) ELSE seg
    IN  IF Len(ds) > 0 /\ \A k \in 1..Len(ds) : IsDigit(ds[k])
        THEN [ok |-> TRUE, value |-> IF neg THEN -NatValue(ds) ELSE NatValue(ds)]
        ELSE [ok |-> FALSE, value |-> 0]

RECURSIVE NatToStr(_)
NatToStr(n) ==
    IF n < 10 THEN DigitChars[n + 1]
    ELSE NatToStr(n \div 10) \o DigitChars[(n % 10) + 1]

\* str() of an int, as the f-strings of get_item apply it
IntToStr(n) == IF n < 0 THEN "-" \o NatToStr(-n) ELSE NatToStr(n)

(***************************************************************************)
(* Requests.                                                               *)
(***************************************************************************)
HEALTH == <<"h", "e", "a", "l", "t", "h">>
API    == <<"a", "p", "i">>
ITEMS  == <<"i", "t", "e", "m", "s">>
\* the path parameter of a route pattern
ITEM_ID == <<"{", "i", "t", "e", "m", "_", "i", "d", "}">>

Request(method, path, query) == [method |-> method, path |-> path, query |-> query]

\* a query string is a set of <<key, value>> pairs
HasParam(query, key) == \E p \in query : p[1] = key
Param(query, key) == (CHOOSE p \in query : p[1] = key)[2]

(***************************************************************************)
(* The handlers.                                                           *)
(***************************************************************************)
JSONResponse(status_code, content) == [status |-> status_code, body |-> content]

\* a returned dict is serialised with the route's default status code
DefaultResponse(content) == JSONResponse(200, content)

\* Faulty variant of root: the welcome message reports how many items exist.
root_banner ==
    DefaultResponse([message |-> "Welcome to FastAPI GitOps Starter!",
                     items |-> Len(created)])

root == DefaultResponse([message |-> "Welcome to FastAPI GitOps Starter!"])

\* Faulty variant of health_check: unhealthy while a failed exchange is around.
health_check_degraded ==
    IF \E i \in Slots : slots[i].state = "done" /\ slots[i].resp.status >= 400
    THEN JSONResponse(503, [status |-> "degraded", service |-> "fastapi-gitops-starter"])
    ELSE JSONResponse(200, [status |-> "healthy", service |-> "fastapi-gitops-starter"])

health_check ==
    JSONResponse(200, [status |-> "healthy", service |-> "fastapi-gitops-starter"])

\* Faulty variant of list_items: a created item is listed.
list_items_stored ==
    DefaultResponse(
        [items |-> << [id |-> 1, name |-> "Item 1", description |-> "First item"],
                      [id |-> 2, name |-> "Item 2", description |-> "Second item"],
                      [id |-> 3, name |-> "Item 3", description |-> "Third item"] >>
                   \o [k \in 1..Len(created) |->
                         [id |-> 999, name |-> created[k].name,
                          description |-> created[k].description]]])

\* Faulty variant of list_items: the second record carries the third's name.
list_items_renamed ==
    DefaultResponse(
        [items |-> << [id |-> 1, name |-> "Item 1", description |-> "First item"],
                      [id |-> 2, name |-> "Item 3", description |-> "Second item"],
                      [id |-> 3, name |-> "Item 3", description |-> "Third item"] >>])

list_items ==
    DefaultResponse(
        [items |-> << [id |-> 1, name |-> "Item 1", description |-> "First item"],
                      [id |-> 2, name |-> "Item 2", description |-> "Second item"],
                      [id |-> 3, name |-> "Item 3", description |-> "Third item"] >>])

\* Faulty variant of create_item: the two parameters are echoed crosswise.
create_item_swapped(name, description) ==
    DefaultResponse([id |-> 999, name |-> description, description |-> name,
                     created |-> TRUE])

\* Faulty variant of create_item: ids are handed out in sequence.
create_item_counter(name, description) ==
    DefaultResponse([id |-> 999 + Len(created), name |-> name,
                     description |-> description, created |-> TRUE])

create_item(name, description) ==
    DefaultResponse([id |-> 999, name |-> name, description |-> description,
                     created |-> TRUE])

\* Faulty variant of get_item: only the listed items are found.
get_item_lookup(item_id) ==
    IF item_id \in 1..3
    THEN DefaultResponse([id |-> item_id,
                          name |-> "Item " \o IntToStr(item_id),
                          description |-> "This is item number " \o IntToStr(item_id)])
    ELSE JSONResponse(404, [detail |-> "Item not found"])

\* Faulty variant of get_item: a created item is returned under its id.
get_item_stored(item_id) ==
    IF item_id = 999 /\ created # <<>>
    THEN DefaultResponse([id |-> item_id,
                          name |-> created[1].name,
                          description |-> created[1].description])
    ELSE DefaultResponse([id |-> item_id,
                          name |-> "Item " \o IntToStr(item_id),
                          description |-> "This is item number " \o IntToStr(item_id)])

get_item(item_id) ==
    DefaultResponse([id |-> item_id,
                     name |-> "Item " \o IntToStr(item_id),
                     description |-> "This is item number " \o IntToStr(item_id)])

(***************************************************************************)
(* Routing and parameter binding.                                          *)
(***************************************************************************)
\* the route table, in registration order
Routes ==
    << [method |-> "GET",  pattern |-> <<>>,                     endpoint |-> "root"],
       [method |-> "GET",  pattern |-> <<HEALTH>>,               endpoint |-> "health_check"],
       [method |-> "GET",  pattern |-> <<API, ITEMS>>,           endpoint |-> "list_items"],
       [method |-> "POST", pattern |-> <<API, ITEMS>>,           endpoint |-> "create_item"],
       [method |-> "GET",  pattern |-> <<API, ITEMS, ITEM_ID>>,  endpoint |-> "get_item"] >>

PathMatches(pattern, path) ==
    /\ Len(pattern) = Len(path)
    /\ \A k \in 1..Len(pattern) : pattern[k] = ITEM_ID \/ pattern[k] = path[k]

\* an exchange's outcome: the response, and the handler that ran ("" if none)
Outcome(endpoint, response) == [called |-> endpoint, resp |-> response]

ValidationError(locs) ==
    Outcome("", JSONResponse(422, [detail |-> [k \in 1..Len(locs) |-> [loc |-> locs[k]]]]))

\* the required query parameters of create_item that the request lacks
create_item_missing(query) ==
    (IF HasParam(query, "name") THEN <<>> ELSE << <<"query", "name">> >>)
    \o (IF HasParam(query, "description") THEN <<>> ELSE << <<"query", "description">> >>)

\* Faulty variant of call_create_item: description is optional and defaults
\* to the empty string.
call_create_item_lax(req) ==
    IF ~HasParam(req.query, "name")
    THEN ValidationError(<< <<"query", "name">> >>)
    ELSE Outcome("create_item",
                 create_item(Param(req.query, "name"),
                             IF HasParam(req.query, "description")
                             THEN Param(req.query, "description") ELSE ""))

call_create_item(req) ==
    IF create_item_missing(req.query) # <<>>
    THEN ValidationError(create_item_missing(req.query))
    ELSE Outcome("create_item",
                 create_item(Param(req.query, "name"),
                             Param(req.query, "description")))

call_get_item(req) ==
    LET item_id == ParseInt(req.path[3])
    IN  IF item_id.ok
        THEN Outcome("get_item", get_item(item_id.value))
        ELSE ValidationError(<< <<"path", "item_id">> >>)

Call(endpoint, req) ==
    CASE endpoint = "root"         -> Outcome("root", root)
      [] endpoint = "health_check" -> Outcome("health_check", health_check)
      [] endpoint = "list_items"   -> Outcome("list_items", list_items)
      [] endpoint = "create_item"  -> call_create_item(req)
      [] endpoint = "get_item"     -> call_get_item(req)

\* The first route matching path and method handles the request; a path that
\* matches only under another method is refused, any other path is not found.
Dispatch(req) ==
    LET matching == {k \in 1..Len(Routes) : PathMatches(Routes[k].pattern, req.path)}
        full     == {k \in matching : Routes[k].method = req.method}
    IN  IF full # {}
        THEN Call(Routes[CHOOSE k \in full : \A j \in full : k <= j].endpoint, req)
        ELSE IF matching # {}
        THEN Outcome("", JSONResponse(405, [detail |-> "Method Not Allowed"]))
        ELSE Outcome("", JSONResponse(404, [detail |-> "Not Found"]))

(***************************************************************************)
(* The requests clients send.                                              *)
(***************************************************************************)
Names == {"John Doe", "Gadget"}
Descriptions == {"I am a description"}

Queries ==
    {n \cup d : n \in {{}} \cup {{<<"name", v>>} : v \in Names},
                d \in {{}} \cup {{<<"description", v>>} : v \in Descriptions}}

RootReq == Request("GET", <<>>, {})
HealthReq == Request("GET", <<HEALTH>>, {})
ListReq == Request("GET", <<API, ITEMS>>, {})
CreateReq(query) == Request("POST", <<API, ITEMS>>, query)
GetReq(seg) == Request("GET", <<API, ITEMS, seg>>, {})

\* the item ids clients ask for while other requests are in flight
SampleSegments == {<<"1">>, <<"2">>, <<"3">>, <<"9", "9", "9">>, <<"a">>}

Requests ==
    {RootReq, HealthReq, ListReq}
    \cup {CreateReq(q) : q \in Queries}
    \cup {GetReq(seg) : seg \in SampleSegments}

\* every method on every shape of path, over all segments
ProbeRequests ==
    {Request(m, p, {}) :
        m \in {"GET", "POST"},
        p \in {<<>>, <<HEALTH>>, <<API, ITEMS>>}
              \cup {<<seg>> : seg \in Segments}
              \cup {<<API, ITEMS, seg>> : seg \in Segments}}

(***************************************************************************)
(* The state machine.                                                      *)
(***************************************************************************)
Idle == [state |-> "idle"]

IsCreated(req, out) == out.called = "create_item" /\ out.resp.status = 200

\* the exchange of request req, handled now
Handled(req) ==
    LET out == Dispatch(req)
    IN  [state |-> "done", req |-> req, called |-> out.called, resp |-> out.resp,
         after |-> created # <<>>]

\* the history of creates once req has been handled
Recorded(req) ==
    IF IsCreated(req, Dispatch(req))
    THEN << [name |-> Dispatch(req).resp.body.name,
             description |-> Dispatch(req).resp.body.description] >>
    ELSE created

Init ==
    /\ slots = [i \in Slots |-> Idle]
    /\ created = <<>>

\* a client's request arrives on a free connection
Receive(i, req) ==
    /\ slots[i].state = "idle"
    /\ slots' = [slots EXCEPT ![i] = [state |-> "pending", req |-> req]]
    /\ UNCHANGED created

\* the event loop runs the handler of one pending request to completion
Handle(i) ==
    /\ slots[i].state = "pending"
    /\ slots' = [slots EXCEPT ![i] = Handled(slots[i].req)]
    /\ created' = Recorded(slots[i].req)

\* the client has read the response; the connection is free again
Release(i) ==
    /\ slots[i].state = "done"
    /\ slots' = [slots EXCEPT ![i] = Idle]
    /\ UNCHANGED created

Next ==
    \/ \E i \in Slots, req \in Requests : Receive(i, req)
    \/ \E i \in Slots : Handle(i)
    \/ \E i \in Slots : Release(i)

Spec == Init /\ [][Next]_vars

\* one request sent and answered on the first connection, as a test client does
Probe(req) ==
    /\ slots[1].state = "idle"
    /\ slots' = [slots EXCEPT ![1] = Handled(req)]
    /\ created' = Recorded(req)

NextProbe ==
    \/ \E req \in ProbeRequests : Probe(req)
    \/ Release(1)

SpecProbe == Init /\ [][NextProbe]_vars

(***************************************************************************)
(* What the claims are stated with.                                        *)
(***************************************************************************)
Done(i) == slots[i].state = "done"

Failed(i) == Done(i) /\ slots[i].resp.status \in 400..499

\* exchange i asked for GET /api/items/<segment>
IsGet(i) ==
    /\ Done(i)
    /\ slots[i].req.method = "GET"
    /\ Len(slots[i].req.path) = 3
    /\ slots[i].req.path[1] = API
    /\ slots[i].req.path[2] = ITEMS

\* exchange i asked for POST /api/items
IsPost(i) ==
    /\ Done(i)
    /\ slots[i].req.method = "POST"
    /\ slots[i].req.path = <<API, ITEMS>>

Unsigned(seg) == IF seg[1] = "-" THEN Tail(seg) ELSE seg

\* the segment is the decimal text of an integer
IsNumeral(seg) ==
    /\ Unsigned(seg) # <<>>
    /\ \A k \in 1..Len(Unsigned(seg)) :
          Unsigned(seg)[k] \in {"0", "1", "2", "3", "4", "5", "6", "7", "8", "9"}

DigitOf(c) ==
    CASE c = "0" -> 0 [] c = "1" -> 1 [] c = "2" -> 2 [] c = "3" -> 3
      [] c = "4" -> 4 [] c = "5" -> 5 [] c = "6" -> 6 [] c = "7" -> 7
      [] c = "8" -> 8 [] c = "9" -> 9

RECURSIVE Horner(_, _)
Horner(ds, acc) ==
    IF ds = <<>> THEN acc ELSE Horner(Tail(ds), acc * 10 + DigitOf(Head(ds)))

\* the integer a numeral denotes
Denoted(seg) ==
    IF seg[1] = "-" THEN 0 - Horner(Tail(seg), 0) ELSE Horner(seg, 0)

\* the numeral a client prints for an integer: no leading zero, no "-0"
Canonical(seg) ==
    /\ IsNumeral(seg)
    /\ Unsigned(seg)[1] = "0" => seg = <<"0">>

RECURSIVE Join(_)
Join(seg) == IF seg = <<>> THEN "" ELSE Head(seg) \o Join(Tail(seg))

ItemRecord(id, name, description) ==
    [id |-> id, name |-> name, description |-> description]

ThreeItems ==
    << ItemRecord(1, "Item 1", "First item"),
       ItemRecord(2, "Item 2", "Second item"),
       ItemRecord(3, "Item 3", "Third item") >>

(***************************************************************************)
(* C1: for every integer n, zero, negative and unlisted ids included,      *)
(* GET /api/items/{n} is answered 200 by get_item with id = n,             *)
(* name = "Item n" and description = "This is item number n"; when the     *)
(* path carries n as a client prints it, the name ends in the very text of *)
(* the path segment.  No integer is answered not-found.                    *)
(***************************************************************************)
C1_GetItemAnyInteger ==
    \A i \in Slots :
        IsGet(i) /\ IsNumeral(slots[i].req.path[3]) =>
            LET seg == slots[i].req.path[3]
                n   == Denoted(seg)
            IN  /\ slots[i].called = "get_item"
                /\ slots[i].resp.status = 200
                /\ slots[i].resp.body =
                       ItemRecord(n, "Item " \o IntToStr(n),
                                  "This is item number " \o IntToStr(n))
                /\ Canonical(seg) =>
                       /\ slots[i].resp.body.name = "Item " \o Join(seg)
                       /\ slots[i].resp.body.description =
                              "This is item number " \o Join(seg)
                /\ seg = <<"5">> =>
                       slots[i].resp.body =
                           ItemRecord(5, "Item 5", "This is item number 5")
                /\ seg = <<"0">> =>
                       slots[i].resp.body =
                           ItemRecord(0, "Item 0", "This is item number 0")
                /\ seg = <<"-", "1", "5">> =>
                       slots[i].resp.body =
                           ItemRecord(-15, "Item -15", "This is item number -15")

\* a negative id, which no listed item has, has been asked for and answered
C1_Witness ==
    /\ IsGet(1)
    /\ slots[1].req.path[3] = <<"-", "1", "5">>
    /\ slots[1].resp.status = 200
    /\ slots[1].resp.body.id = -15

(***************************************************************************)
(* C2: POST /api/items with both parameters present is answered 200 with   *)
(* name and description equal to the inputs, id 999 and created true; two  *)
(* creates with different inputs carry the same id.                        *)
(***************************************************************************)
C2_CreateEchoes ==
    /\ \A i \in Slots, n \in Names, d \in Descriptions :
          Done(i) /\ slots[i].req = CreateReq({<<"name", n>>, <<"description", d>>}) =>
              /\ slots[i].called = "create_item"
              /\ slots[i].resp.status = 200
              /\ slots[i].resp.body =
                     [id |-> 999, name |-> n, description |-> d, created |-> TRUE]
    /\ \A i, j \in Slots :
          /\ IsPost(i) /\ slots[i].resp.status = 200
          /\ IsPost(j) /\ slots[j].resp.status = 200
          => slots[i].resp.body.id = slots[j].resp.body.id

\* two creates with different names have both been answered
C2_Witness ==
    /\ IsPost(1) /\ IsPost(2)
    /\ slots[1].resp.status = 200 /\ slots[2].resp.status = 200
    /\ slots[1].resp.body.name = "John Doe"
    /\ slots[2].resp.body.name = "Gadget"
    /\ slots[1].resp.body.id = 999 /\ slots[2].resp.body.id = 999

(***************************************************************************)
(* C3: whatever was requested before, successful creates included,         *)
(* GET /api/items is answered 200 with exactly the three records 1, 2, 3   *)
(* in that order, with their fixed names and descriptions.                 *)
(***************************************************************************)
C3_ListIsFixed ==
    \A i \in Slots :
        Done(i) /\ slots[i].req = ListReq =>
            /\ slots[i].called = "list_items"
            /\ slots[i].resp.status = 200
            /\ slots[i].resp.body = [items |-> ThreeItems]
            /\ Len(slots[i].resp.body.items) = 3
            /\ \A k \in 1..3 : slots[i].resp.body.items[k].id = k

\* the list has been served after a successful create
C3_Witness ==
    \E i \in Slots :
        /\ Done(i) /\ slots[i].req = ListReq
        /\ slots[i].after
        /\ created # <<>>

(***************************************************************************)
(* C4: a successful create has no effect on later responses: the list      *)
(* served after it holds no item with id 999 or with the posted name, and  *)
(* GET /api/items/999 served after it is the synthesized record named      *)
(* "Item 999", not the posted name and description; a request answered     *)
(* after a create gets what the same request got before any create.        *)
(***************************************************************************)
C4_CreateHasNoEffect ==
    /\ \A i \in Slots :
          Done(i) /\ slots[i].after =>
              /\ slots[i].req = ListReq =>
                    /\ Len(slots[i].resp.body.items) = 3
                    /\ \A k \in 1..Len(slots[i].resp.body.items) :
                          /\ slots[i].resp.body.items[k].id # 999
                          /\ slots[i].resp.body.items[k].name \notin Names
              /\ slots[i].req = GetReq(<<"9", "9", "9">>) =>
                    /\ slots[i].resp.status = 200
                    /\ slots[i].resp.body =
                           ItemRecord(999, "Item 999", "This is item number 999")
                    /\ slots[i].resp.body.name \notin Names
                    /\ slots[i].resp.body.description \notin Descriptions
    /\ \A i, j \in Slots :
          /\ Done(i) /\ ~slots[i].after
          /\ Done(j) /\ slots[j].after
          /\ slots[i].req = slots[j].req
          => slots[i].resp = slots[j].resp

\* item 999 has been asked for after a successful create
C4_Witness ==
    \E i \in Slots :
        /\ Done(i) /\ slots[i].after
        /\ slots[i].req = GetReq(<<"9", "9", "9">>)
        /\ created # <<>>

(***************************************************************************)
(* C5: GET /api/items/{x} where x is not the text of an integer is         *)
(* answered with a 4xx status; get_item is not invoked and no 200 response *)
(* with a synthesized record is produced.                                  *)
(***************************************************************************)
C5_NonIntegerRejected ==
    \A i \in Slots :
        IsGet(i) /\ ~IsNumeral(slots[i].req.path[3]) =>
            /\ slots[i].resp.status \in 400..499
            /\ slots[i].called # "get_item"
            /\ "id" \notin DOMAIN slots[i].resp.body

\* a segment that starts like a number but is none has been refused
C5_Witness ==
    /\ IsGet(1)
    /\ slots[1].req.path[3] = <<"1", "a">>
    /\ Failed(1)

(***************************************************************************)
(* C6: POST /api/items lacking name, description or both is answered with  *)
(* a 4xx status, never with a 200 body carrying id 999 and created = true. *)
(***************************************************************************)
C6_MissingParamRejected ==
    \A i \in Slots :
        /\ IsPost(i)
        /\ ~HasParam(slots[i].req.query, "name")
              \/ ~HasParam(slots[i].req.query, "description")
        => /\ slots[i].resp.status \in 400..499
           /\ slots[i].called # "create_item"
           /\ "created" \notin DOMAIN slots[i].resp.body

\* a create without description has been refused and recorded nothing
C6_Witness ==
    \E i \in Slots :
        /\ IsPost(i)
        /\ slots[i].req.query = {<<"name", "John Doe">>}
        /\ Failed(i)

(***************************************************************************)
(* C7: after any sequence of successful and failed requests GET /health is *)
(* answered 200 with status "healthy" and service "fastapi-gitops-starter";*)
(* the health handler has no error outcome.                                *)
(***************************************************************************)
C7_HealthAlwaysHealthy ==
    \A i \in Slots :
        Done(i) /\ slots[i].req = HealthReq =>
            /\ slots[i].called = "health_check"
            /\ slots[i].resp.status = 200
            /\ slots[i].resp.body.status = "healthy"
            /\ slots[i].resp.body.service = "fastapi-gitops-starter"

\* health has been served after a create, next to a failed exchange
C7_Witness ==
    \E i, j \in Slots :
        /\ Done(i) /\ slots[i].req = HealthReq /\ slots[i].after
        /\ Failed(j)

(***************************************************************************)
(* C8: after any sequence of requests GET / is answered 200 with a body    *)
(* that is exactly {"message": "Welcome to FastAPI GitOps Starter!"}, with *)
(* no other field.                                                         *)
(***************************************************************************)
C8_RootIsFixed ==
    \A i \in Slots :
        Done(i) /\ slots[i].req = RootReq =>
            /\ slots[i].called = "root"
            /\ slots[i].resp.status = 200
            /\ DOMAIN slots[i].resp.body = {"message"}
            /\ slots[i].resp.body.message = "Welcome to FastAPI GitOps Starter!"

\* the root has been served after a create
C8_Witness ==
    \E i \in Slots :
        /\ Done(i) /\ slots[i].req = RootReq
        /\ slots[i].after

(***************************************************************************)
(* C9: handler invocations do not interact: under every interleaving of    *)
(* concurrent requests, two exchanges of the same request (method, path,   *)
(* parameters) end with the identical status and body, whatever was        *)
(* handled between them.                                                   *)
(***************************************************************************)
C9_SameRequestSameResponse ==
    \A i, j \in Slots :
        Done(i) /\ Done(j) /\ slots[i].req = slots[j].req =>
            /\ slots[i].resp.status = slots[j].resp.status
            /\ slots[i].resp.body = slots[j].resp.body
            /\ slots[i].called = slots[j].called

\* the same create has been answered twice, once before and once after a create
C9_Witness ==
    \E i, j \in Slots :
        /\ i # j
        /\ IsPost(i) /\ IsPost(j)
        /\ slots[i].req = slots[j].req
        /\ slots[i].resp.status = 200
        /\ ~slots[i].after /\ slots[j].after

(***************************************************************************)
(* C10: list and get agree on id and name: for a record r of the list,     *)
(* GET /api/items/{r.id} is answered with r's id and r's name.             *)
(***************************************************************************)
C10_ListAndGetAgree ==
    \A i, j \in Slots :
        Done(i) /\ slots[i].req = ListReq /\ IsGet(j) =>
            \A k \in 1..Len(slots[i].resp.body.items) :
                LET r == slots[i].resp.body.items[k]
                IN  Join(slots[j].req.path[3]) = IntToStr(r.id) =>
                        /\ slots[j].resp.status = 200
                        /\ slots[j].resp.body.id = r.id
                        /\ slots[j].resp.body.name = r.name

\* the list and the second record's item have both been served
C10_Witness ==
    \E i, j \in Slots :
        /\ Done(i) /\ slots[i].req = ListReq
        /\ IsGet(j) /\ slots[j].req.path[3] = <<"2">>
        /\ slots[j].resp.status = 200
        /\ slots[j].resp.body.name = slots[i].resp.body.items[2].name

=============================================================================
